---- MODULE Spec2Model ----
(***************************************************************************)
(* Model of the Knowledge Garden web dashboard (src/main.go): a Fiber     *)
(* application with a fixed middleware chain (logger, recover, compress,   *)
(* cors, securityHeaders, limiter), six routes, a catch-all 404 handler,   *)
(* a central error handler and a signal-driven shutdown goroutine.         *)
(*                                                                         *)
(* Bodies are modelled before content coding: the logger, recover and      *)
(* compress middlewares do not change status, headers set by the program   *)
(* or the entity body of the requests enumerated here.                     *)
(***************************************************************************)
EXTENDS Integers, Sequences, FiniteSets, TLC

(***************************************************************************)
(* Bounds of the model.                                                    *)
(***************************************************************************)
MaxTime == 90          \* the clock of the limiter specifications stops here
TickSeconds == 30      \* seconds that pass between two observations of the clock
HitCap == 122          \* requests counted per client and window in the model
MaxOther == 2          \* requests per window of the second client
MaxInflight == 1       \* connections accepted in the shutdown specification
MaxWork == 6           \* seconds a slow response may still need
MaxShutdownTime == 6   \* the clock of the shutdown specification stops here

(***************************************************************************)
(* Program constants.                                                      *)
(***************************************************************************)
Max == 120                         \* limiter.Config.Max
Expiration == 60                   \* limiter.Config.Expiration, in seconds
ShutdownTimeout == 5               \* app.ShutdownWithTimeout(5 * time.Second)
StatusOK == 200
StatusNoContent == 204
StatusNotFound == 404
StatusTooManyRequests == 429
StatusInternalServerError == 500

version == "dev"
appName == "Knowledge Garden CLI - Web Dashboard"

Clients == {"10.0.0.1", "10.0.0.2"}
Methods == {"GET", "POST", "OPTIONS"}      \* OPTIONS stands for a CORS preflight

HtmlRoutes == {"/", "/tutorial", "/tutorial/self-hosting", "/tutorial/cli-reference"}
StaticPresent == {"/static/css/app.css"}   \* files of the immutable asset tree
Paths == HtmlRoutes \cup {"/health", "/static/css/app.css", "/static/none.css", "/missing"}

Templates == {"index.html", "tutorial.html", "tutorial-self-hosting.html",
              "tutorial-cli-reference.html", "404.html"}
NoFile == "ENOENT"
Contents == {"<html>v1</html>", "<html>v2</html>"}

\* variant: the tutorial hub reads the self-hosting guide's file
TemplateOfCopied(p) ==
    CASE p = "/" -> "index.html"
      [] p = "/tutorial" -> "tutorial-self-hosting.html"
      [] p = "/tutorial/self-hosting" -> "tutorial-self-hosting.html"
      [] p = "/tutorial/cli-reference" -> "tutorial-cli-reference.html"

\* the template a route handler reads
TemplateOf(p) ==
    CASE p = "/" -> "index.html"
      [] p = "/tutorial" -> "tutorial.html"
      [] p = "/tutorial/self-hosting" -> "tutorial-self-hosting.html"
      [] p = "/tutorial/cli-reference" -> "tutorial-cli-reference.html"

VARIABLES
    now,        \* utils.Timestamp: the limiter's clock, in seconds
    entries,    \* limiter storage: client key -> [currHits, exp]
    files,      \* templates directory: file name -> content or NoFile
    resp,       \* the response sent last
    trail,      \* per client, admissions in each of the last clock observations
    lnOpen,     \* the listener accepts connections
    sigPending, \* a signal sits in the channel c
    mainPc,     \* main: "listening" | "exited"
    sdPc,       \* shutdown goroutine: "waiting" | "shutdown" | "draining" | "done"
    deadline,   \* end of the ShutdownWithTimeout context
    errLogged,  \* "Error during shutdown" was logged
    inflight    \* accepted connection -> request being served

vars == <<now, entries, files, resp, trail, lnOpen, sigPending, mainPc,
          sdPc, deadline, errLogged, inflight>>

procVars == <<lnOpen, sigPending, mainPc, sdPc, deadline, errLogged, inflight>>

(***************************************************************************)
(* Response headers: a set of <<name, value>> pairs; c.Set replaces.       *)
(***************************************************************************)
NoHeaders == {}

Set(h, name, val) == {x \in h : x[1] # name} \cup {<<name, val>>}

Get(h, name) == IF \E x \in h : x[1] = name
                THEN (CHOOSE x \in h : x[1] = name)[2]
                ELSE ""

\* securityHeaders, main.go:94-102
securityHeaders(h) ==
    LET h1 == Set(h, "X-Content-Type-Options", "nosniff")
        h2 == Set(h1, "X-Frame-Options", "DENY")
        h3 == Set(h2, "X-XSS-Protection", "1; mode=block")
        h4 == Set(h3, "Referrer-Policy", "strict-origin-when-cross-origin")
        h5 == Set(h4, "Permissions-Policy", "default-src 'self'")
    IN  Set(h5, "X-Application-Version", version)

\* c.SendString: body only; c.JSON: body and Content-Type
SendString(r, s) == [r EXCEPT !.body = [text |-> s]]
JSON(r, obj) == [r EXCEPT !.body = obj,
                          !.headers = Set(r.headers, "Content-Type", "application/json")]
Status(r, code) == [r EXCEPT !.status = code]
SetHeader(r, name, val) == [r EXCEPT !.headers = Set(r.headers, name, val)]

\* a fresh fiber.Ctx response
NewResponse(h) == [status |-> StatusOK, headers |-> h, body |-> [text |-> ""], via |-> "route"]

(***************************************************************************)
(* Route handlers, main.go:104-171.                                        *)
(***************************************************************************)
\* variant: the templates are loaded once, at startup
ReadFileCached(fs, name) == [err |-> FALSE, content |-> "<html>v1</html>"]

\* os.ReadFile
ReadFile(fs, name) == [err |-> fs[name] = NoFile, content |-> fs[name]]

\* variant: another status word
healthHandlerOk(r) ==
    [r EXCEPT !.body = [status |-> "ok", version |-> version, app |-> appName],
              !.headers = Set(r.headers, "Content-Type", "application/json")]

\* app.Get("/health", ...)
healthHandler(r) ==
    JSON(r, [status |-> "healthy", version |-> version, app |-> appName])

\* app.Get("/", ...), app.Get("/tutorial", ...), ...
htmlHandler(r, fs, p) ==
    LET r1 == SetHeader(r, "Content-Type", "text/html; charset=utf-8")
        f == ReadFile(fs, TemplateOf(p))
    IN  IF f.err
        THEN SendString(Status(r1, StatusNotFound), "Template not found")
        ELSE SendString(r1, f.content)

\* variant: the custom document is sent without c.Status(fiber.StatusNotFound)
notFoundHandlerNoStatus(r, fs) ==
    IF fs["404.html"] = NoFile
    THEN [r EXCEPT !.status = StatusNotFound,
                   !.headers = Set(r.headers, "Content-Type", "text/html; charset=utf-8"),
                   !.body = [text |-> "404 - Page Not Found"]]
    ELSE [r EXCEPT !.headers = Set(r.headers, "Content-Type", "text/html; charset=utf-8"),
                   !.body = [text |-> fs["404.html"]]]

\* app.Use(func ...): the 404 handler registered last
notFoundHandler(r, fs) ==
    LET r1 == SetHeader(r, "Content-Type", "text/html; charset=utf-8")
        f == ReadFile(fs, "404.html")
    IN  IF f.err
        THEN SendString(Status(r1, StatusNotFound), "404 - Page Not Found")
        ELSE SendString(Status(r1, StatusNotFound), f.content)

\* app.Static("/static", staticPath): serves an existing file to GET, else c.Next()
staticServes(m, p) == m = "GET" /\ p \in StaticPresent

staticHandler(r, p) ==
    SendString(SetHeader(r, "Content-Type", "text/css; charset=utf-8"), "body{}")

\* the router: the first registered route that matches and handles the request
Route(r, fs, m, p) ==
    IF m = "GET" /\ p = "/health" THEN healthHandler(r)
    ELSE IF staticServes(m, p) THEN staticHandler(r, p)
    ELSE IF m = "GET" /\ p \in HtmlRoutes THEN htmlHandler(r, fs, p)
    ELSE notFoundHandler(r, fs)

(***************************************************************************)
(* Middleware chain, main.go:53-89.                                        *)
(***************************************************************************)
\* cors.New: a preflight is answered by the middleware itself, without c.Next()
corsPreflight(m) == m = "OPTIONS"

corsReply(r) ==
    LET r1 == SetHeader(r, "Access-Control-Allow-Origin", "*")
        r2 == SetHeader(r1, "Access-Control-Allow-Methods", "GET,POST,OPTIONS")
        r3 == SetHeader(r2, "Access-Control-Allow-Headers",
                        "Origin,Content-Type,Accept,Authorization")
    IN  [Status(r3, StatusNoContent) EXCEPT !.via = "cors"]

corsSimple(r) == SetHeader(r, "Access-Control-Allow-Origin", "*")

\* limiter.New with the default FixedWindow algorithm: the counting done under
\* the middleware's mutex for the key c.IP()
NoEntry == [currHits |-> 0, exp |-> 0]

\* variant: the window is reset only after its last second has passed
limiterHitLateReset(e, ts) ==
    LET e1 == IF e.exp = 0 THEN [e EXCEPT !.exp = ts + Expiration]
              ELSE IF ts > e.exp THEN [currHits |-> 0, exp |-> ts + Expiration]
              ELSE e
    IN  [e1 EXCEPT !.currHits = @ + 1]

limiterHit(e, ts) ==
    LET e1 == IF e.exp = 0 THEN [e EXCEPT !.exp = ts + Expiration]
              ELSE IF ts >= e.exp THEN [currHits |-> 0, exp |-> ts + Expiration]
              ELSE e
    IN  [e1 EXCEPT !.currHits = @ + 1]

\* variant: one request too many is let through
limitReachedOffByOne(e) == Max - e.currHits < -1

limitReached(e) == Max - e.currHits < 0

\* LimitReached, main.go:84-88
LimitReached(r) ==
    [JSON(Status(r, StatusTooManyRequests), [error |-> "Rate limit exceeded"])
        EXCEPT !.via = "limiter"]

\* the whole chain for one request: the response and the client's new entry
Chain(fs, e, ts, m, p) ==
    LET r0 == NewResponse(NoHeaders)
    IN  IF corsPreflight(m)
        THEN [resp |-> corsReply(r0), entry |-> e]
        ELSE LET r1 == corsSimple(r0)
                 r2 == [r1 EXCEPT !.headers = securityHeaders(r1.headers)]
                 e1 == limiterHit(e, ts)
             IN  IF limitReached(e1)
                 THEN [resp |-> LimitReached(r2), entry |-> e1]
                 ELSE [resp |-> Route(r2, fs, m, p), entry |-> e1]

\* the response as the client sees it
Sent(c, m, p, r) ==
    [client |-> c, method |-> m, path |-> p, status |-> r.status,
     headers |-> r.headers, body |-> r.body, via |-> r.via]

NoResp == [client |-> "", method |-> "", path |-> "", status |-> 0,
           headers |-> NoHeaders, body |-> [text |-> ""], via |-> "none"]

(***************************************************************************)
(* customErrorHandler, main.go:173-191.  An error is a *fiber.Error with   *)
(* a code, or any other error.                                             *)
(***************************************************************************)
Errors == {[fiber |-> TRUE, code |-> 400, msg |-> "Bad Request"],
           [fiber |-> TRUE, code |-> 404, msg |-> "Not Found"],
           [fiber |-> TRUE, code |-> 413, msg |-> "Request Entity Too Large"],
           [fiber |-> FALSE, code |-> 0, msg |-> "unexpected EOF"]}

customErrorHandler(r, err) ==
    LET code == IF err.fiber THEN err.code ELSE StatusInternalServerError
        r1 == SetHeader(r, "Content-Type", "application/json")
    IN  [(IF code = StatusNotFound
          THEN SendString(Status(r1, StatusNotFound), "404 - Page Not Found")
          ELSE JSON(Status(r1, code), [error |-> err.msg]))
         EXCEPT !.via = "error"]

(***************************************************************************)
(* Initial states.                                                         *)
(***************************************************************************)
TrailLen == (Expiration + TickSeconds - 1) \div TickSeconds

Conns == 1..MaxInflight

NoConn == [state |-> "free", work |-> 0, atSignal |-> FALSE, need |-> 0,
           late |-> FALSE, resp |-> NoResp]

InitProc ==
    /\ lnOpen = TRUE
    /\ sigPending = FALSE
    /\ mainPc = "listening"
    /\ sdPc = "waiting"
    /\ deadline = 0
    /\ errLogged = FALSE
    /\ inflight = [k \in Conns |-> NoConn]

\* the process right after app.Listen started, all templates deployed
Init ==
    /\ now = 0
    /\ entries = [c \in Clients |-> NoEntry]
    /\ files = [f \in Templates |-> "<html>v1</html>"]
    /\ resp = NoResp
    /\ trail = [c \in Clients |-> [i \in 1..TrailLen |-> 0]]
    /\ InitProc

(***************************************************************************)
(* Requests.                                                               *)
(***************************************************************************)
Alive == mainPc = "listening"

\* one request served from accept to the last byte of the response
Serve(c, m, p) ==
    /\ Alive /\ lnOpen
    /\ LET out == Chain(files, entries[c], now, m, p)
       IN  /\ out.entry.currHits <= HitCap
           /\ entries' = [entries EXCEPT ![c] = out.entry]
           /\ resp' = Sent(c, m, p, out.resp)
    /\ UNCHANGED <<now, files>>
    /\ UNCHANGED procVars

Request(c, m, p) ==
    /\ Serve(c, m, p)
    /\ UNCHANGED trail

\* the same request, with its admission recorded in the trail
admitted(r) == r.via \notin {"cors", "limiter", "none"}

ObservedRequest(c, m, p) ==
    /\ Serve(c, m, p)
    /\ trail' = IF admitted(resp')
                THEN [trail EXCEPT ![c][1] = @ + 1]
                ELSE trail

\* an error surfaces to app.ErrorHandler on a fresh context
HandleError(c, err) ==
    /\ Alive /\ lnOpen
    /\ resp' = Sent(c, "", "", customErrorHandler(NewResponse(NoHeaders), err))
    /\ UNCHANGED <<now, entries, files, trail>>
    /\ UNCHANGED procVars

\* the operator edits, deletes or restores a template
WriteFile(f, content) ==
    /\ files[f] # content
    /\ files' = [files EXCEPT ![f] = content]
    /\ UNCHANGED <<now, entries, resp, trail>>
    /\ UNCHANGED procVars

RemoveFile(f) ==
    /\ files[f] # NoFile
    /\ files' = [files EXCEPT ![f] = NoFile]
    /\ UNCHANGED <<now, entries, resp, trail>>
    /\ UNCHANGED procVars

\* the timestamp updater advances the clock; slow responses make progress
Max0(x) == IF x < 0 THEN 0 ELSE x

Advance(d) ==
    /\ now' = now + d
    /\ trail' = [c \in Clients |->
                    [i \in 1..TrailLen |-> IF i = 1 THEN 0 ELSE trail[c][i - 1]]]
    /\ inflight' = [k \in Conns |->
                      IF inflight[k].state = "active"
                      THEN [inflight[k] EXCEPT !.work = Max0(@ - d)]
                      ELSE inflight[k]]
    /\ UNCHANGED <<entries, files, resp, lnOpen, sigPending, mainPc, sdPc,
                   deadline, errLogged>>

Tick ==
    /\ now + TickSeconds <= MaxTime
    /\ Advance(TickSeconds)

(***************************************************************************)
(* Routing specification: one client that has already sent Max - 1         *)
(* requests in the running window; templates are edited and removed.       *)
(***************************************************************************)
RouteClient == "10.0.0.1"
OtherClient == "10.0.0.2"

InitRoutes ==
    /\ now = 0
    /\ entries = [c \in Clients |-> IF c = RouteClient
                                    THEN [currHits |-> Max - 1, exp |-> Expiration]
                                    ELSE NoEntry]
    /\ files = [f \in Templates |-> "<html>v1</html>"]
    /\ resp = NoResp
    /\ trail = [c \in Clients |-> [i \in 1..TrailLen |-> 0]]
    /\ InitProc

NextRoutes ==
    \/ \E m \in Methods, p \in Paths : Request(RouteClient, m, p)
    \/ \E err \in Errors : HandleError(RouteClient, err)
    \/ \E f \in Templates, content \in Contents : WriteFile(f, content)
    \/ \E f \in Templates : RemoveFile(f)

Spec == InitRoutes /\ [][NextRoutes]_vars

(***************************************************************************)
(* Limiter specification: two clients and the clock.                       *)
(***************************************************************************)
LimiterMethods == {"GET", "OPTIONS"}

NextLimiter ==
    \/ \E m \in LimiterMethods : Request(RouteClient, m, "/health")
    \/ \E m \in LimiterMethods :
          /\ limiterHit(entries[OtherClient], now).currHits <= MaxOther
          /\ Request(OtherClient, m, "/health")
    \/ Tick

SpecLimiter == Init /\ [][NextLimiter]_vars

(***************************************************************************)
(* Window specification: one client, the clock, and the trail of its       *)
(* admissions over the last Expiration seconds.                            *)
(***************************************************************************)
NextWindow ==
    \/ \E m \in LimiterMethods : ObservedRequest(RouteClient, m, "/health")
    \/ Tick

SpecWindow == Init /\ [][NextWindow]_vars

(***************************************************************************)
(* Shutdown, main.go:25-42 and 193-204.                                    *)
(***************************************************************************)
Active(k) == inflight[k].state = "active"

\* the OS delivers SIGINT or SIGTERM into the channel c (capacity 1)
Signal ==
    /\ Alive /\ ~sigPending
    /\ sigPending' = TRUE
    /\ inflight' = [k \in Conns |->
                      IF Active(k) /\ ~inflight[k].atSignal
                      THEN [inflight[k] EXCEPT !.atSignal = TRUE, !.need = inflight[k].work]
                      ELSE inflight[k]]
    /\ UNCHANGED <<now, entries, files, resp, trail, lnOpen, mainPc, sdPc,
                   deadline, errLogged>>

\* <-c in the goroutine of setupGracefulShutdown
SdReceive ==
    /\ Alive /\ sdPc = "waiting" /\ sigPending
    /\ sigPending' = FALSE
    /\ sdPc' = "shutdown"
    /\ UNCHANGED <<now, entries, files, resp, trail, lnOpen, mainPc, deadline,
                   errLogged, inflight>>

\* app.ShutdownWithTimeout: the context is created and the listener closed
SdCloseListener ==
    /\ Alive /\ sdPc = "shutdown"
    /\ lnOpen' = FALSE
    /\ deadline' = now + ShutdownTimeout
    /\ sdPc' = "draining"
    /\ UNCHANGED <<now, entries, files, resp, trail, sigPending, mainPc,
                   errLogged, inflight>>

\* ... it returns nil once no connection is open
SdDrained ==
    /\ Alive /\ sdPc = "draining"
    /\ \A k \in Conns : ~Active(k)
    /\ sdPc' = "done"
    /\ UNCHANGED <<now, entries, files, resp, trail, lnOpen, sigPending, mainPc,
                   deadline, errLogged, inflight>>

\* ... or the context's error at the deadline, which the goroutine logs
SdTimeout ==
    /\ Alive /\ sdPc = "draining"
    /\ \E k \in Conns : Active(k)
    /\ now >= deadline
    /\ errLogged' = TRUE
    /\ sdPc' = "done"
    /\ UNCHANGED <<now, entries, files, resp, trail, lnOpen, sigPending, mainPc,
                   deadline, inflight>>

\* variant: app.Listen returns only when no connection is open any more
listenReturnsWhenIdle == ~lnOpen /\ \A k \in Conns : ~Active(k)

\* app.Listen returns when the listener is closed
listenReturns == ~lnOpen

\* main returns from app.Listen with a nil error: the process exits and
\* takes every goroutine with it
MainReturns ==
    /\ Alive /\ listenReturns
    /\ mainPc' = "exited"
    /\ inflight' = [k \in Conns |->
                      IF Active(k) THEN [inflight[k] EXCEPT !.state = "aborted"]
                      ELSE inflight[k]]
    /\ UNCHANGED <<now, entries, files, resp, trail, lnOpen, sigPending, sdPc,
                   deadline, errLogged>>

\* a connection is accepted; its response needs w more seconds to be sent
BeginRequest(k, c, m, p, w) ==
    /\ Alive /\ lnOpen
    /\ inflight[k].state = "free"
    /\ LET out == Chain(files, entries[c], now, m, p)
       IN  /\ out.entry.currHits <= HitCap
           /\ entries' = [entries EXCEPT ![c] = out.entry]
           /\ inflight' = [inflight EXCEPT ![k] =
                  [state |-> "active", work |-> w, atSignal |-> FALSE, need |-> 0,
                   late |-> sdPc \in {"draining", "done"},
                   resp |-> Sent(c, m, p, out.resp)]]
    /\ UNCHANGED <<now, files, resp, trail, lnOpen, sigPending, mainPc, sdPc,
                   deadline, errLogged>>

\* the last byte of the response is written
FinishRequest(k) ==
    /\ Alive /\ Active(k) /\ inflight[k].work = 0
    /\ resp' = inflight[k].resp
    /\ inflight' = [inflight EXCEPT ![k].state = "done"]
    /\ UNCHANGED <<now, entries, files, trail, lnOpen, sigPending, mainPc, sdPc,
                   deadline, errLogged>>

TickSecond ==
    /\ Alive /\ now < MaxShutdownTime
    /\ Advance(1)

NextShutdown ==
    \/ \E k \in Conns, w \in 1..MaxWork : BeginRequest(k, RouteClient, "GET", "/health", w)
    \/ \E k \in Conns : FinishRequest(k)
    \/ Signal
    \/ SdReceive
    \/ SdCloseListener
    \/ SdDrained
    \/ SdTimeout
    \/ MainReturns
    \/ TickSecond

SpecShutdown == Init /\ [][NextShutdown]_vars

\* the Go scheduler runs every runnable goroutine
SpecShutdownFair ==
    /\ SpecShutdown
    /\ WF_vars(SdReceive)
    /\ WF_vars(SdCloseListener)
    /\ WF_vars(MainReturns)

(***************************************************************************)
(* Properties.                                                             *)
(***************************************************************************)
TypeOK ==
    /\ now \in Nat
    /\ entries \in [Clients -> [currHits : Nat, exp : Nat]]
    /\ files \in [Templates -> Contents \cup {NoFile}]
    /\ resp.status \in {0, 200, 204, 400, 404, 413, 429, 500}
    /\ mainPc \in {"listening", "exited"}
    /\ sdPc \in {"waiting", "shutdown", "draining", "done"}

\* a step that serves a request: it sends a response or counts a hit
ReqStep == now' = now /\ (resp' # resp \/ entries' # entries)

ContentType(r) == Get(r.headers, "Content-Type")

\* hits of client c counted in the window that is running at the clock ts
InWindow(c) == entries[c].exp # 0 /\ now < entries[c].exp
PriorHits(c) == IF InWindow(c) THEN entries[c].currHits ELSE 0

RateLimitedReply(r) ==
    /\ r.status = StatusTooManyRequests
    /\ r.body = [error |-> "Rate limit exceeded"]
    /\ ContentType(r) = "application/json"

\* C1 (as stated): in every interleaving of the clients' requests, a request
\* of a client that has fewer than 120 requests counted in the running window
\* (or whose window has reset) is admitted, every request after the 120th of
\* the window gets 429 with {"error": "Rate limit exceeded"}, and no request
\* changes another client's count.
C1_Original ==
    [][\A c \in Clients :
          (ReqStep /\ resp'.client = c) =>
             /\ PriorHits(c) < Max => resp'.status # StatusTooManyRequests
             /\ PriorHits(c) >= Max => RateLimitedReply(resp')
             /\ \A d \in Clients \ {c} : entries'[d] = entries[d]]_vars

\* C1 (amended): the same for the requests that reach the limiter; a CORS
\* preflight is answered 204 by the CORS middleware, is never limited and
\* leaves every count unchanged.
C1_LimiterWindow ==
    [][\A c \in Clients :
          (ReqStep /\ resp'.client = c) =>
             /\ resp'.via = "cors" =>
                   (resp'.status = StatusNoContent /\ entries' = entries)
             /\ resp'.via # "cors" =>
                   /\ PriorHits(c) < Max =>
                         (admitted(resp') /\ resp'.status # StatusTooManyRequests)
                   /\ PriorHits(c) >= Max => RateLimitedReply(resp')
                   /\ entries'[c].currHits = PriorHits(c) + 1
             /\ \A d \in Clients \ {c} : entries'[d] = entries[d]]_vars

\* the 121st request of a window was refused while the other client is served
C1_Witness ==
    /\ resp.client = RouteClient
    /\ RateLimitedReply(resp)
    /\ entries[RouteClient].currHits = Max + 1
    /\ now >= Expiration
    /\ entries[OtherClient].currHits > 0

\* C2: no connection is accepted once the shutdown has closed the listener,
\* and no request that was in flight at the signal and needed at most 5 more
\* seconds is cut off by the exit of the process.
C2_InFlightCompletes ==
    \A k \in Conns :
       /\ ~inflight[k].late
       /\ inflight[k].state = "aborted" =>
             ~(inflight[k].atSignal /\ inflight[k].need <= ShutdownTimeout)

\* C3: every response carries the security headers of securityHeaders.
C3_AllResponsesSecured ==
    resp.via # "none" => securityHeaders(NoHeaders) \subseteq resp.headers

\* C4 (as stated): every GET /health returns 200 and status "healthy",
\* however many requests the client has sent before.
C4_Original ==
    (resp.method = "GET" /\ resp.path = "/health") =>
       /\ resp.status = StatusOK
       /\ "status" \in DOMAIN resp.body
       /\ resp.body.status = "healthy"

\* C4 (amended): every GET /health that the rate limiter admits returns 200
\* and status "healthy"; one beyond the limit gets the 429 reply.
C4_HealthWhenAdmitted ==
    (resp.method = "GET" /\ resp.path = "/health") =>
       IF resp.via = "limiter"
       THEN RateLimitedReply(resp)
       ELSE /\ resp.status = StatusOK
            /\ ContentType(resp) = "application/json"
            /\ "status" \in DOMAIN resp.body
            /\ resp.body.status = "healthy"

C4_Witness ==
    /\ resp.method = "GET" /\ resp.path = "/health"
    /\ resp.status = StatusOK
    /\ entries[RouteClient].currHits = Max

\* C5: an admitted GET of an HTML route whose file is readable returns 200,
\* text/html; charset=utf-8 and the content the file has at that request.
C5_ServesCurrentFile ==
    [][\A p \in HtmlRoutes :
          (/\ ReqStep
           /\ resp'.method = "GET" /\ resp'.path = p
           /\ admitted(resp')
           /\ files[TemplateOf(p)] # NoFile) =>
             /\ resp'.status = StatusOK
             /\ ContentType(resp') = "text/html; charset=utf-8"
             /\ resp'.body = [text |-> files[TemplateOf(p)]]]_vars

\* an edited template was served
C5_Witness ==
    /\ resp.method = "GET" /\ resp.path \in HtmlRoutes
    /\ resp.status = StatusOK
    /\ resp.body = [text |-> "<html>v2</html>"]
    /\ files[TemplateOf(resp.path)] = "<html>v2</html>"

Unrouted == Paths \ (HtmlRoutes \cup {"/health", "/static/css/app.css", "/static/none.css"})

NotFoundBody(fs) ==
    IF fs["404.html"] = NoFile THEN [text |-> "404 - Page Not Found"]
    ELSE [text |-> fs["404.html"]]

\* C6 (as stated): a request for a path outside the route table and /static/
\* returns 404 with the body of 404.html or the fallback text.
C6_Original ==
    [][(ReqStep /\ resp'.path \in Unrouted) =>
          /\ resp'.status = StatusNotFound
          /\ resp'.body = NotFoundBody(files)]_vars

\* C6 (amended): so does every such request that the rate limiter admits; a
\* CORS preflight gets 204 and a request beyond the limit 429, never 200 or 5xx.
C6_NotFoundWhenAdmitted ==
    [][(ReqStep /\ resp'.path \in Unrouted) =>
          /\ admitted(resp') =>
                /\ resp'.status = StatusNotFound
                /\ resp'.body = NotFoundBody(files)
                /\ ContentType(resp') = "text/html; charset=utf-8"
          /\ resp'.via = "cors" => resp'.status = StatusNoContent
          /\ resp'.via = "limiter" => RateLimitedReply(resp')
          /\ resp'.status # StatusOK /\ resp'.status < 500]_vars

C6_Witness ==
    /\ resp.path \in Unrouted
    /\ resp.status = StatusNotFound
    /\ resp.body = [text |-> "404 - Page Not Found"]
    /\ files["404.html"] = NoFile

RECURSIVE SumTo(_, _)
SumTo(f, n) == IF n = 0 THEN 0 ELSE f[n] + SumTo(f, n - 1)

\* admissions of client c in the last Expiration seconds
TrailingAdmitted(c) == SumTo(trail[c], TrailLen)

\* observations of the clock that lie in the running window of client c
WindowPoints(c) ==
    {i \in 1..TrailLen : now - (i - 1) * TickSeconds >= entries[c].exp - Expiration}

RECURSIVE SumOver(_, _)
SumOver(f, S) == IF S = {} THEN 0
                 ELSE LET i == CHOOSE j \in S : TRUE IN f[i] + SumOver(f, S \ {i})

WindowAdmitted(c) == SumOver(trail[c], WindowPoints(c))

\* C7 (as stated): at most 120 requests of a client are admitted in any
\* trailing 60-second interval.
C7_Original ==
    \A c \in Clients : TrailingAdmitted(c) <= Max

\* C7 (amended): at most 120 requests of a client are admitted in any one
\* limiter window; a trailing 60-second interval meets at most two windows
\* and so holds at most 240 admissions.
C7_FixedWindow ==
    \A c \in Clients :
       /\ InWindow(c) => WindowAdmitted(c) <= Max
       /\ TrailingAdmitted(c) <= 2 * Max

\* more than 120 admissions within 60 seconds, across a reset
C7_Witness ==
    /\ TrailingAdmitted(RouteClient) = 2 * Max - 1
    /\ WindowAdmitted(RouteClient) = Max

SelfHosting == "/tutorial/self-hosting"

\* C9: with the file of /tutorial/self-hosting missing, an admitted GET of that
\* path returns 404 from its handler, and every other request gets the response
\* it would get with the file present.
C9_MissingFileIsolated ==
    [][ReqStep =>
          /\ (/\ resp'.method = "GET" /\ resp'.path = SelfHosting
              /\ admitted(resp')
              /\ files[TemplateOf(SelfHosting)] = NoFile) =>
                 (resp'.status = StatusNotFound /\ resp'.via = "route")
          /\ (resp'.path \in Paths \ {SelfHosting}) =>
                \A content \in Contents :
                   resp' = Sent(resp'.client, resp'.method, resp'.path,
                                Chain([files EXCEPT ![TemplateOf(SelfHosting)] = content],
                                      entries[resp'.client], now,
                                      resp'.method, resp'.path).resp)]_vars

C9_Witness ==
    /\ files[TemplateOf(SelfHosting)] = NoFile
    /\ resp.method = "GET" /\ resp.path = SelfHosting
    /\ resp.status = StatusNotFound
    /\ resp.body = [text |-> "Template not found"]

\* C10: a response of the error handler has the error's status (500 without
\* one); a 404 is an HTML page with an HTML content type, any other error a
\* JSON object {"error": message} with content type application/json.
C10_ErrorRendering ==
    resp.via = "error" =>
       /\ resp.status \in {e.code : e \in {x \in Errors : x.fiber}}
                          \cup {StatusInternalServerError}
       /\ resp.status = StatusNotFound =>
             /\ ContentType(resp) = "text/html; charset=utf-8"
             /\ resp.body \in {[text |-> "404 - Page Not Found"]}
                              \cup {[text |-> c] : c \in Contents}
       /\ resp.status # StatusNotFound =>
             /\ ContentType(resp) = "application/json"
             /\ DOMAIN resp.body = {"error"}

====
